---- MODULE Spec2Model ----
(***************************************************************************)
(* Model of ftpanon.py: the host normaliser (strip_url_prefix), the        *)
(* connectivity probe (check_connectivity), the retrying anonymous login   *)
(* (anonLogin), the per-host task (process_host) and the coordinator       *)
(* (main) that fans the tasks out over a ThreadPoolExecutor.               *)
(*                                                                         *)
(* Strings are sequences of one-character strings.                         *)
(***************************************************************************)
EXTENDS Integers, Sequences, FiniteSets, TLC

(***************************************************************************)
(* Bounds of the model.                                                    *)
(***************************************************************************)
MaxHosts == 2
MaxRetries == 3
MaxWorkers == 2

(***************************************************************************)
(* Sequence helpers.                                                       *)
(***************************************************************************)
Range(s) == {s[k] : k \in DOMAIN s}

Count(s, x) == Cardinality({k \in DOMAIN s : s[k] = x})

\* index of the first element of s at or after position from that lies in
\* the set cs, or Len(s) + 1 when there is none (str.find over a char class)
FindFrom(s, cs, from) ==
    LET hits == {k \in from..Len(s) : s[k] \in cs}
    IN  IF hits = {} THEN Len(s) + 1
        ELSE CHOOSE k \in hits : \A m \in hits : k <= m

\* index of the last element of s that lies in cs, or 0
FindLast(s, cs) ==
    LET hits == {k \in DOMAIN s : s[k] \in cs}
    IN  IF hits = {} THEN 0
        ELSE CHOOSE k \in hits : \A m \in hits : m <= k

Slice(s, from, to) == IF from > to THEN <<>> ELSE SubSeq(s, from, to)

\* the element of a one-element set: The({e(x) : x \in {v}}) is e(v), with v
\* computed once
The(S) == CHOOSE x \in S : TRUE

(***************************************************************************)
(* urllib.parse.urlparse, as far as strip_url_prefix uses it: the scheme,  *)
(* the netloc and the hostname property of the result.                     *)
(***************************************************************************)
Upper == {"A", "B", "F", "T", "P"}
Lower == {"a", "b", "f", "t", "p"}
Digits == {"1", "2"}
SchemeChars == Upper \cup Lower \cup Digits \cup {"+", "-", "."}

ToLowerChar(c) ==
    CASE c = "A" -> "a"
      [] c = "B" -> "b"
      [] c = "F" -> "f"
      [] c = "T" -> "t"
      [] c = "P" -> "p"
      [] OTHER -> c

ToLower(s) == [k \in DOMAIN s |-> ToLowerChar(s[k])]

\* urlsplit: a scheme is the text before the first ":" when that text is
\* non-empty, starts with a letter and is made of scheme characters
SchemeEnd(url) ==
    LET i == FindFrom(url, {":"}, 1)
    IN  IF /\ i <= Len(url)
           /\ i > 1
           /\ url[1] \in Upper \cup Lower
           /\ \A k \in 1..(i - 1) : url[k] \in SchemeChars
        THEN i
        ELSE 0

\* urlsplit: url.lstrip(...) drops the leading spaces before the scheme is
\* looked for
lstrip(s) == Slice(s, FindFrom(s, Range(s) \ {" "}, 1), Len(s))

\* the text after "scheme:", or all of it when there is no scheme
DropScheme(u) == Slice(u, SchemeEnd(u) + 1, Len(u))

AfterScheme(url) == The({DropScheme(u) : u \in {lstrip(url)}})

HasNetloc(rest) == Len(rest) >= 2 /\ rest[1] = "/" /\ rest[2] = "/"

NetlocOf_KeepPath(rest) ==
    IF HasNetloc(rest) THEN Slice(rest, 3, Len(rest)) ELSE <<>>

\* urlsplit: the netloc exists only when the rest starts with "//"; it runs
\* up to the first of "/", "?", "#"
NetlocOf(rest) ==
    IF HasNetloc(rest)
    THEN Slice(rest, 3, FindFrom(rest, {"/", "?", "#"}, 3) - 1)
    ELSE <<>>

Netloc(url) == The({NetlocOf(rest) : rest \in {AfterScheme(url)}})

Unbalanced(n) ==
    \/ ("[" \in Range(n) /\ "]" \notin Range(n))
    \/ ("]" \in Range(n) /\ "[" \notin Range(n))

\* urlsplit raises ValueError("Invalid IPv6 URL") on an unbalanced bracket
urlparse_raises(url) == \E n \in {Netloc(url)} : Unbalanced(n)

Balanced(n) == "[" \in Range(n) /\ "]" \in Range(n)

\* interpreters from 3.11.4 on also raise ValueError when the netloc has
\* both brackets and the text between them is no IP literal; earlier ones
\* never do
urlparse_may_raise(url) == \E n \in {Netloc(url)} : Balanced(n)

\* the hostname property: userinfo dropped at the last "@", then either the
\* text between "[" and "]" or the text before the first ":", lower-cased
\* up to a "%" zone; None (here the empty string) when nothing is left
HostInfo(n) == Slice(n, FindLast(n, {"@"}) + 1, Len(n))

UpTo(s, cs) == Slice(s, 1, FindFrom(s, cs, 1) - 1)

After(s, cs) == Slice(s, FindFrom(s, cs, 1) + 1, Len(s))

HostText(hostinfo) ==
    IF "[" \in Range(hostinfo)
    THEN UpTo(After(hostinfo, {"["}), {"]"})
    ELSE UpTo(hostinfo, {":"})

LowerHost(h) ==
    ToLower(UpTo(h, {"%"})) \o Slice(h, FindFrom(h, {"%"}, 1), Len(h))

Hostname(url) ==
    The({LowerHost(host) : host \in
            {HostText(hostinfo) : hostinfo \in
                {HostInfo(n) : n \in {Netloc(url)}}}})

\* line 145: a if a else b
OrElse(a, b) == IF a # <<>> THEN a ELSE b

strip_url_prefix(url) ==
    The({OrElse(hostname, url) : hostname \in {Hostname(url)}})


(***************************************************************************)
(* The host list handed to main by load_hosts: every entry is              *)
(* strip_url_prefix of a token of the file.                                *)
(***************************************************************************)
FileTokens ==
    { <<"f", "t", "p", ":", "/", "/", "a", ":", "2", "1", "/", "p">>,
      <<"b">> }

HostTokens == {strip_url_prefix(t) : t \in FileTokens}

(***************************************************************************)
(* Outcomes of the external world.                                         *)
(***************************************************************************)
\* socket.create_connection: connected, or the exception it raises:
\* socket.timeout, ConnectionRefusedError, or another OSError (socket.gaierror
\* for a name that does not resolve, network unreachable, no free descriptor)
ProbeOutcomes == {"connected", "timeout", "refused", "oserror"}

\* one pass through the try body of anonLogin: everything worked, or an
\* exception of ftplib.all_errors was raised before the success message, by
\* ftplib.FTP(...), ftp.login or ftp.getresp (login_err), or after it, by
\* ftp.quit (quit_err)
AttemptOutcomes == {"ok", "login_err", "quit_err"}

VARIABLES
    hosts,          \* main: the list load_hosts returned
    retries,        \* args.retries
    check_only,     \* args.check_only
    max_workers,    \* size of the ThreadPoolExecutor pool
    mainpc,         \* position of main
    mainExc,        \* exception propagating out of main, or "none"
    summaryWrites,  \* number of times save_summary wrote summary.txt
    results,        \* the shared dict of four lists
    worker,         \* worker thread -> task it runs (0: idle)
    tpc,            \* task -> position of its process_host call
    host,           \* task -> process_host's local host, once normalised
    probe,          \* task -> outcome of check_connectivity
    attempt,        \* task -> anonLogin's local attempt
    attemptsMade,   \* task -> number of ftplib.FTP(...) login attempts started
    delays,         \* task -> number of time.sleep(2) calls
    lastOutcome,    \* task -> outcome of the latest login attempt
    loginRet,       \* task -> value anonLogin returned
    timeout,        \* args.timeout
    file,           \* the host list file: whether it exists, and its text
    inputError,     \* the error load_hosts printed, or "none"
    call,           \* one process_host call followed statement by statement
    norm            \* one token followed through the normalisations

vars == <<hosts, retries, check_only, max_workers, mainpc, mainExc,
          summaryWrites, results, worker, tpc, host, probe, attempt,
          attemptsMade, delays, lastOutcome, loginRet, timeout, file,
          inputError, call, norm>>

\* the state of the closer views below; the pool run leaves it alone
aux == <<timeout, file, inputError, call, norm>>

config == <<hosts, retries, check_only, max_workers>>

Tasks == DOMAIN hosts

Workers == 1..max_workers

Finished == {"done", "raised"}

InFlightPcs == {"probe", "login", "sleep"}

InFlight == {i \in Tasks : tpc[i] \in InFlightPcs}

\* parse_arguments, line 56: default=5
DefaultTimeout == 5

NoFile == [exists |-> FALSE, content |-> <<>>]

NoCall ==
    [pc |-> "none", host |-> <<>>, probeDeadline |-> 0, loginDeadline |-> 0,
     attempt |-> 0, attemptsMade |-> 0, delays |-> 0, conns |-> {}, ftp |-> 0,
     reported |-> FALSE, failed |-> FALSE, ret |-> "none"]

NoNorm ==
    [pc |-> "none", raw |-> <<>>, once |-> <<>>, twice |-> <<>>,
     loaded |-> <<>>, host |-> <<>>]

Init ==
    /\ \E n \in 0..MaxHosts : hosts \in [1..n -> HostTokens]
    /\ timeout = DefaultTimeout
    /\ file = NoFile
    /\ inputError = "none"
    /\ call = NoCall
    /\ norm = NoNorm
    /\ retries \in 0..MaxRetries
    /\ check_only \in BOOLEAN
    /\ max_workers \in 1..MaxWorkers
    /\ mainpc = "load_hosts"
    /\ mainExc = "none"
    /\ summaryWrites = 0
    /\ results = [reachable |-> <<>>, unreachable |-> <<>>,
                  anon_login |-> <<>>, anon_failures |-> <<>>]
    /\ worker = [w \in Workers |-> 0]
    /\ tpc = [i \in Tasks |-> "unsubmitted"]
    /\ host = [i \in Tasks |-> <<>>]
    /\ probe = [i \in Tasks |-> "none"]
    /\ attempt = [i \in Tasks |-> 0]
    /\ attemptsMade = [i \in Tasks |-> 0]
    /\ delays = [i \in Tasks |-> 0]
    /\ lastOutcome = [i \in Tasks |-> "none"]
    /\ loginRet = [i \in Tasks |-> "none"]


(***************************************************************************)
(* check_connectivity (lines 92-99).                                       *)
(***************************************************************************)
\* the except clause names socket.timeout and ConnectionRefusedError only
IsCaughtProbeError(o) == o \in {"timeout", "refused"}

\* what the call does with an outcome of socket.create_connection
check_connectivity(o) ==
    IF o = "connected" THEN "True"
    ELSE IF IsCaughtProbeError(o) THEN "False"
    ELSE "raise"

(***************************************************************************)
(* anonLogin (lines 101-128).                                              *)
(***************************************************************************)
\* off by one: one pass more than retries
RetryRemains_Inclusive(a, r) == a <= r

\* "attempt < retries": the while condition and the test before the sleep
RetryRemains(a, r) == a < r

\* the attempts whose login and response read went through, so that the
\* success message was printed and logged (lines 105-111)
SuccessReported == {"ok", "quit_err"}

(***************************************************************************)
(* process_host (lines 130-141).                                           *)
(***************************************************************************)
\* the flag is not consulted
LoginWanted_FlagIgnored(co) == TRUE

\* "if not check_only"
LoginWanted(co) == ~co

\* the list is replaced instead of extended
AppendTo_Overwrite(bucket, h) == [results EXCEPT ![bucket] = <<h>>]

\* results[bucket].append(host)
AppendTo(bucket, h) == [results EXCEPT ![bucket] = Append(@, h)]

\* the call of task i ends: its worker thread is free again
Release(i) == [w \in Workers |-> IF worker[w] = i THEN 0 ELSE worker[w]]

(***************************************************************************)
(* ThreadPoolExecutor (line 217): max_workers threads, a FIFO work queue.  *)
(***************************************************************************)
\* a thread is handed a work item while it still runs one
WorkerIdle_Always(w) == TRUE

WorkerIdle(w) == worker[w] = 0

\* the worker threads are interchangeable: the idle thread that gets the
\* next work item is taken to be the first idle one
FirstIdle(w) == \A v \in Workers : worker[v] = 0 => w <= v

Queued == {i \in Tasks : tpc[i] = "queued"}

NextQueued == CHOOSE i \in Queued : \A j \in Queued : i <= j

\* a worker thread takes the next work item and starts process_host on it;
\* line 131: host = strip_url_prefix(host), which raises when urlparse does
Take(w) ==
    /\ WorkerIdle(w)
    /\ FirstIdle(w)
    /\ Queued # {}
    /\ IF urlparse_raises(hosts[NextQueued])
       THEN /\ tpc' = [tpc EXCEPT ![NextQueued] = "raised"]
            /\ UNCHANGED <<worker, host>>
       ELSE /\ tpc' = [tpc EXCEPT ![NextQueued] = "probe"]
            /\ worker' = [worker EXCEPT ![w] = NextQueued]
            /\ host' = [host EXCEPT ![NextQueued] =
                           strip_url_prefix(hosts[NextQueued])]
    /\ UNCHANGED <<aux, config, mainpc, mainExc, summaryWrites, results, probe,
                   attempt, attemptsMade, delays, lastOutcome, loginRet>>

\* the login is not nested under the reachability test
LoginAttempted_ProbeIgnored(r, co) == LoginWanted(co)

\* lines 132-135: anonLogin is called for a reachable host unless check_only
LoginAttempted(r, co) == r = "True" /\ LoginWanted(co)

\* the two branches of line 132 append to the same list
ProbeBucket_OneList(r) == "unreachable"

\* lines 133 and 140: the list that takes the host after the probe
ProbeBucket(r) == IF r = "True" THEN "reachable" ELSE "unreachable"

\* lines 132-134 and 139-140: probe, record the probe's result
CheckConnectivity(i, o) ==
    /\ tpc[i] = "probe"
    /\ UNCHANGED <<aux, config, mainpc, mainExc, summaryWrites, host, attempt,
                   attemptsMade, delays, lastOutcome, loginRet>>
    /\ probe' = [probe EXCEPT ![i] = o]
    /\ LET r == check_connectivity(o)
       IN  IF r = "raise"
           THEN \* the exception leaves process_host; the future keeps it
                /\ tpc' = [tpc EXCEPT ![i] = "raised"]
                /\ worker' = Release(i)
                /\ UNCHANGED results
           ELSE /\ results' = AppendTo(ProbeBucket(r), host[i])
                /\ IF LoginAttempted(r, check_only)
                   THEN /\ tpc' = [tpc EXCEPT ![i] = "login"]
                        /\ UNCHANGED worker
                   ELSE /\ tpc' = [tpc EXCEPT ![i] = "done"]
                        /\ worker' = Release(i)

\* lines 103-119: one pass of the loop body; on success anonLogin returns
\* True and process_host appends to anon_login (line 136)
AnonLoginAttempt(i, o) ==
    /\ tpc[i] = "login"
    /\ RetryRemains(attempt[i], retries)
    /\ attemptsMade' = [attemptsMade EXCEPT ![i] = @ + 1]
    /\ lastOutcome' = [lastOutcome EXCEPT ![i] = o]
    /\ UNCHANGED <<aux, config, mainpc, mainExc, summaryWrites, host, probe, delays>>
    /\ IF o = "ok"
       THEN /\ loginRet' = [loginRet EXCEPT ![i] = "True"]
            /\ results' = AppendTo("anon_login", host[i])
            /\ tpc' = [tpc EXCEPT ![i] = "done"]
            /\ worker' = Release(i)
            /\ UNCHANGED attempt
       ELSE /\ attempt' = [attempt EXCEPT ![i] = @ + 1]
            /\ tpc' = [tpc EXCEPT ![i] =
                         IF RetryRemains(attempt[i] + 1, retries)
                         THEN "sleep" ELSE "login"]
            /\ UNCHANGED <<loginRet, results, worker>>

\* line 119: time.sleep(2)
AnonLoginSleep(i) ==
    /\ tpc[i] = "sleep"
    /\ delays' = [delays EXCEPT ![i] = @ + 1]
    /\ tpc' = [tpc EXCEPT ![i] = "login"]
    /\ UNCHANGED <<aux, config, mainpc, mainExc, summaryWrites, results, worker,
                   host, probe, attempt, attemptsMade, lastOutcome, loginRet>>

\* line 128 and line 138: the loop is over, anonLogin returns False and
\* process_host appends to anon_failures
AnonLoginExhausted(i) ==
    /\ tpc[i] = "login"
    /\ ~RetryRemains(attempt[i], retries)
    /\ loginRet' = [loginRet EXCEPT ![i] = "False"]
    /\ results' = AppendTo("anon_failures", host[i])
    /\ tpc' = [tpc EXCEPT ![i] = "done"]
    /\ worker' = Release(i)
    /\ UNCHANGED <<aux, config, mainpc, mainExc, summaryWrites, host, probe,
                   attempt, attemptsMade, delays, lastOutcome>>

(***************************************************************************)
(* main (lines 205-223).                                                   *)
(***************************************************************************)
\* line 10 imports ThreadPoolExecutor only: the name as_completed of line
\* 219 is bound nowhere in the module
as_completed_defined == FALSE

\* the wait ends at the first future that holds an exception
AllTasksFinished_UntilFirstError ==
    \/ \E i \in Tasks : tpc[i] = "raised"
    \/ \A i \in Tasks : tpc[i] \in {"done", "raised"}

\* leaving the with block: shutdown(wait=True) joins the worker threads,
\* which run every work item already submitted
AllTasksFinished == \A i \in Tasks : tpc[i] \in Finished

\* lines 205-207
MainLoadHosts ==
    /\ mainpc = "load_hosts"
    /\ mainpc' = IF hosts = <<>> THEN "returned" ELSE "submit"
    /\ UNCHANGED <<aux, config, mainExc, summaryWrites, results, worker, tpc,
                   host, probe, attempt, attemptsMade, delays, lastOutcome,
                   loginRet>>

\* line 218: one executor.submit per host; line 219: as_completed(futures)
\* is evaluated, and with the name unbound the NameError starts to leave the
\* with block
MainSubmit ==
    /\ mainpc = "submit"
    /\ tpc' = [i \in Tasks |-> "queued"]
    /\ mainpc' = "exit_with"
    /\ mainExc' = IF as_completed_defined THEN "none" ELSE "NameError"
    /\ UNCHANGED <<aux, config, summaryWrites, results, worker, host, probe,
                   attempt, attemptsMade, delays, lastOutcome, loginRet>>

\* lines 219-220 (were as_completed bound, the loop would end once every
\* future is done), the end of the with block, then lines 222-223 unless an
\* exception is propagating
MainExit ==
    /\ mainpc = "exit_with"
    /\ AllTasksFinished
    /\ IF mainExc = "none"
       THEN mainpc' = "returned" /\ summaryWrites' = summaryWrites + 1
       ELSE mainpc' = "crashed" /\ UNCHANGED summaryWrites
    /\ UNCHANGED <<aux, config, mainExc, results, worker, tpc, host, probe,
                   attempt, attemptsMade, delays, lastOutcome, loginRet>>

MainOver == mainpc \in {"returned", "crashed"}

Next ==
    \/ MainLoadHosts
    \/ MainSubmit
    \/ MainExit
    \/ \E w \in Workers : Take(w)
    \/ \E i \in Tasks, o \in ProbeOutcomes : CheckConnectivity(i, o)
    \/ \E i \in Tasks, o \in AttemptOutcomes : AnonLoginAttempt(i, o)
    \/ \E i \in Tasks : AnonLoginSleep(i)
    \/ \E i \in Tasks : AnonLoginExhausted(i)

Spec == Init /\ [][Next]_vars


(***************************************************************************)
(* Properties.                                                             *)
(***************************************************************************)
\* the host names the started process_host calls file their entries under
Names == {host[i] : i \in Tasks}

Entries(h) == {i \in Tasks : host[i] = h}

InBucket(b, h) == Count(results[b], h)

\* C1: after a completed run every entry of the host list is in exactly one
\* of reachable / unreachable, whatever its probe's outcome, and every entry
\* for which a login was attempted is in exactly one of anon_login /
\* anon_failures (entries are counted, so that a host listed twice is filed
\* twice).
C1_EveryHostClassified ==
    MainOver =>
        \A h \in Names :
            /\ InBucket("reachable", h) + InBucket("unreachable", h)
                 = Cardinality(Entries(h))
            /\ InBucket("anon_login", h) + InBucket("anon_failures", h)
                 >= Cardinality({i \in Entries(h) : attemptsMade[i] > 0})
            /\ InBucket("anon_login", h) + InBucket("anon_failures", h)
                 <= InBucket("reachable", h)

\* C2: a timeout, a refusal and any other transport failure of the probe are
\* all turned into the value False: process_host does not raise, and the
\* host is filed under unreachable.
C2_ProbeFailuresBecomeUnreachable ==
    \A i \in Tasks :
        probe[i] \in {"timeout", "refused", "oserror"} =>
            /\ tpc[i] = "done"
            /\ InBucket("unreachable", host[i]) >= 1

\* C3: with retries = n >= 1 and every attempt failing, anonLogin makes
\* exactly n attempts and sleeps exactly n - 1 times, then returns False; a
\* sleep is taken only between a failed attempt and a following one, so no
\* finished call has slept as often as it has attempted.
C3_AllAttemptsFail ==
    \A i \in Tasks :
        /\ (retries >= 1 /\ loginRet[i] = "False") =>
               /\ attemptsMade[i] = retries
               /\ delays[i] = retries - 1
               /\ lastOutcome[i] # "ok"
        /\ (tpc[i] = "done" /\ attemptsMade[i] > 0) =>
               delays[i] < attemptsMade[i]
        /\ tpc[i] = "sleep" => lastOutcome[i] \notin {"ok", "none"}

C3_Witness ==
    \E i \in Tasks :
        /\ retries = 3
        /\ loginRet[i] = "False"
        /\ attemptsMade[i] = 3
        /\ delays[i] = 2

\* C4: anonLogin returns True on the first attempt whose login exchange
\* succeeds; after such an attempt there is no further attempt and no sleep.
C4_ReturnsOnFirstSuccess ==
    \A i \in Tasks :
        lastOutcome[i] \in SuccessReported =>
            /\ tpc[i] = "done"
            /\ loginRet[i] = "True"

\* C5: with retries = 0 and check_only unset, the login of a reachable host
\* is skipped: no attempt is made and neither login list takes the host.
C5_ZeroRetriesSkipsLogin ==
    (retries = 0 /\ ~check_only) =>
        /\ \A i \in Tasks : attemptsMade[i] = 0
        /\ results.anon_login = <<>>
        /\ results.anon_failures = <<>>

\* C6: a run over a non-empty host list ends with the summary written
\* exactly once, after every host task has finished.
C6_SummaryWrittenOnce ==
    (MainOver /\ hosts # <<>>) =>
        /\ summaryWrites = 1
        /\ \A i \in Tasks : tpc[i] \in Finished

\* C7: with check_only set no login is attempted for any host in any
\* interleaving: anonLogin is never entered and both login lists stay empty.
C7_CheckOnlyNeverLogsIn ==
    check_only =>
        /\ \A i \in Tasks :
              /\ tpc[i] \notin {"login", "sleep"}
              /\ attemptsMade[i] = 0
              /\ loginRet[i] = "none"
        /\ results.anon_login = <<>>
        /\ results.anon_failures = <<>>

C7_Witness ==
    /\ check_only
    /\ \E i, j \in Tasks :
          /\ tpc[i] = "done" /\ probe[i] = "connected"
          /\ tpc[j] = "done" /\ probe[j] = "refused"

\* C8: a host whose probe returned False gets no login: its call ends at
\* once, it is filed under unreachable, and the entries in the reachable
\* and login lists are never more than the entries whose probe connected.
C8_UnreachableNeverLogsIn ==
    /\ \A i \in Tasks :
          probe[i] \in {"timeout", "refused"} =>
              /\ tpc[i] = "done"
              /\ attemptsMade[i] = 0
              /\ loginRet[i] = "none"
    /\ \A h \in Names :
          LET connected == {i \in Entries(h) : probe[i] = "connected"}
              failed == {i \in Entries(h) : probe[i] \in {"timeout", "refused"}}
          IN  /\ InBucket("unreachable", h) = Cardinality(failed)
              /\ InBucket("reachable", h) = Cardinality(connected)
              /\ InBucket("anon_login", h) + InBucket("anon_failures", h)
                   <= Cardinality(connected)

C8_Witness ==
    \E i \in Tasks :
        /\ ~check_only
        /\ retries > 0
        /\ probe[i] = "timeout"
        /\ tpc[i] = "done"
        /\ host[i] \in Range(results.unreachable)

\* C9: at most max_workers process_host calls are in flight, however many
\* hosts are queued, and a worker thread holds one call until it is over:
\* every call in flight is held by exactly one thread and every busy thread
\* holds a call in flight.
C9_BoundedInFlight ==
    /\ Cardinality(InFlight) <= max_workers
    /\ \A i \in InFlight : Cardinality({w \in Workers : worker[w] = i}) = 1
    /\ \A w \in Workers : worker[w] # 0 => worker[w] \in InFlight

C9_Witness ==
    /\ max_workers < Len(hosts)
    /\ Cardinality(InFlight) = max_workers
    /\ Queued # {}
    /\ \E i \in InFlight : tpc[i] = "sleep"

\* C10: an error in one host's processing, an exception leaving process_host
\* included, stops no other host: a thread is free again after it, the queue
\* is never stuck (some step is possible until main is over), and when main
\* is over every submitted host has been processed to its end and every call
\* that returned has filed its host.
C10_FailuresAreIsolated ==
    /\ \A w \in Workers : worker[w] # 0 => tpc[worker[w]] # "raised"
    /\ Queued # {} => (InFlight # {} \/ \E w \in Workers : worker[w] = 0)
    /\ ~MainOver => ENABLED Next
    /\ (MainOver /\ hosts # <<>>) =>
          \A i \in Tasks :
              /\ tpc[i] \in Finished
              /\ tpc[i] = "done" =>
                    InBucket("reachable", host[i])
                      + InBucket("unreachable", host[i]) >= 1

C10_Witness ==
    /\ MainOver
    /\ \E i, j \in Tasks :
          /\ i < j
          /\ tpc[i] = "raised"
          /\ tpc[j] = "done"


Buckets == {"reachable", "unreachable", "anon_login", "anon_failures"}

C19_BucketsConsistent ==
    LET logged == Range(results.anon_login) \cup Range(results.anon_failures)
        distinct == \A i, j \in Tasks : i # j => hosts[i] # hosts[j]
    IN  /\ logged \subseteq Range(results.reachable)
        /\ distinct =>
              /\ Range(results.anon_login)
                   \cap Range(results.anon_failures) = {}
              /\ Range(results.unreachable) \cap logged = {}
              /\ Range(results.unreachable)
                   \cap Range(results.reachable) = {}

C19_Witness ==
    \E i, j \in Tasks :
        /\ hosts[i] # hosts[j]
        /\ host[i] \in Range(results.anon_failures)
        /\ tpc[j] = "login"
        /\ host[j] \in Range(results.reachable)


\* ------------------------------------------------------------------
\* One process_host call followed statement by statement: the deadline
\* each blocking call is given, the control connections that are open,
\* and the messages anonLogin has printed.
\* ------------------------------------------------------------------

MaxTimeout == 6

\* line 92: timeout=5, the value check_connectivity uses when the caller
\* passes none
ProbeDefaultTimeout == 5

\* line 132: check_connectivity(host), args.timeout is not passed on
ProbeDeadline(t) == ProbeDefaultTimeout

\* line 105: ftplib.FTP(hostname, timeout=timeout)
LoginDeadline(t) == t

\* ftplib.FTP(host): the TCP connect fails, or it succeeds and the
\* welcome line is read, or the socket is open and reading the welcome
\* line fails
ConnectOutcomes == {"ok", "refused", "banner_err"}

StepOutcomes == {"ok", "err"}

NextAttempt_Skip(a) == a + 2

\* line 116: attempt += 1
NextAttempt(a) == a + 1

pool == <<mainpc, mainExc, summaryWrites, worker, tpc, host, probe, attempt,
          attemptsMade, delays, lastOutcome, loginRet>>

HostFrame == UNCHANGED <<config, pool, timeout, file, inputError, norm>>

HInit ==
    /\ hosts \in [1..1 -> HostTokens]
    /\ retries \in 0..MaxRetries
    /\ check_only \in BOOLEAN
    /\ max_workers = 1
    /\ timeout \in 1..MaxTimeout
    /\ file = NoFile
    /\ inputError = "none"
    /\ norm = NoNorm
    /\ call = [NoCall EXCEPT !.pc = "enter"]
    /\ mainpc = "none"
    /\ mainExc = "none"
    /\ summaryWrites = 0
    /\ results = [reachable |-> <<>>, unreachable |-> <<>>,
                  anon_login |-> <<>>, anon_failures |-> <<>>]
    /\ worker = [w \in Workers |-> 0]
    /\ tpc = [i \in Tasks |-> "unsubmitted"]
    /\ host = [i \in Tasks |-> <<>>]
    /\ probe = [i \in Tasks |-> "none"]
    /\ attempt = [i \in Tasks |-> 0]
    /\ attemptsMade = [i \in Tasks |-> 0]
    /\ delays = [i \in Tasks |-> 0]
    /\ lastOutcome = [i \in Tasks |-> "none"]
    /\ loginRet = [i \in Tasks |-> "none"]

\* line 131
HEnter ==
    /\ call.pc = "enter"
    /\ call' = IF urlparse_raises(hosts[1])
               THEN [call EXCEPT !.pc = "raised"]
               ELSE [call EXCEPT !.pc = "probe",
                                 !.host = strip_url_prefix(hosts[1])]
    /\ UNCHANGED results
    /\ HostFrame

\* lines 132-134, 139-140
HProbe(o) ==
    /\ call.pc = "probe"
    /\ HostFrame
    /\ LET r == check_connectivity(o)
           c == [call EXCEPT !.probeDeadline = ProbeDeadline(timeout)]
       IN  IF r = "raise"
           THEN /\ call' = [c EXCEPT !.pc = "raised"]
                /\ UNCHANGED results
           ELSE /\ results' = AppendTo(ProbeBucket(r), call.host)
                /\ call' = [c EXCEPT !.pc = IF LoginAttempted(r, check_only)
                                            THEN "while" ELSE "done"]

\* line 103, and lines 128, 138 when the loop is over: the local ftp
\* goes out of scope
HWhile ==
    /\ call.pc = "while"
    /\ HostFrame
    /\ IF RetryRemains(call.attempt, retries)
       THEN /\ call' = [call EXCEPT !.pc = "connect"]
            /\ UNCHANGED results
       ELSE /\ call' = [call EXCEPT !.pc = "done", !.ret = "False",
                                    !.ftp = 0]
            /\ results' = AppendTo("anon_failures", call.host)

\* line 105: a connection is named after the attempt that opened it;
\* ftp is bound only when the constructor returns
HConnect(o) ==
    /\ call.pc = "connect"
    /\ HostFrame
    /\ UNCHANGED results
    /\ LET n == call.attemptsMade + 1
           c == [call EXCEPT !.attemptsMade = n,
                             !.loginDeadline = LoginDeadline(timeout)]
       IN  call' = CASE o = "ok" ->
                          [c EXCEPT !.conns = @ \cup {n}, !.ftp = n,
                                    !.pc = "login"]
                     [] o = "banner_err" ->
                          [c EXCEPT !.conns = @ \cup {n}, !.pc = "except"]
                     [] OTHER -> [c EXCEPT !.pc = "except"]

\* line 106
HLogin(o) ==
    /\ call.pc = "login"
    /\ HostFrame
    /\ UNCHANGED results
    /\ call' = [call EXCEPT !.pc = IF o = "ok" THEN "getresp" ELSE "except"]

\* lines 109-111: the response is read, then the success is printed and
\* logged
HGetresp(o) ==
    /\ call.pc = "getresp"
    /\ HostFrame
    /\ UNCHANGED results
    /\ call' = IF o = "ok"
               THEN [call EXCEPT !.pc = "quit", !.reported = TRUE]
               ELSE [call EXCEPT !.pc = "except"]

\* lines 113-114, 136: FTP.quit sends QUIT and closes the connection only
\* after the reply has been read
HQuit(o) ==
    /\ call.pc = "quit"
    /\ HostFrame
    /\ IF o = "ok"
       THEN /\ call' = [call EXCEPT !.pc = "done", !.ret = "True",
                                    !.conns = @ \ {call.ftp}, !.ftp = 0]
            /\ results' = AppendTo("anon_login", call.host)
       ELSE /\ call' = [call EXCEPT !.pc = "except"]
            /\ UNCHANGED results

\* lines 115-118, 120-127
HExcept ==
    /\ call.pc = "except"
    /\ HostFrame
    /\ UNCHANGED results
    /\ LET a == NextAttempt(call.attempt)
       IN  call' = IF RetryRemains(a, retries)
                   THEN [call EXCEPT !.attempt = a, !.pc = "sleep"]
                   ELSE [call EXCEPT !.attempt = a, !.pc = "while",
                                     !.failed = TRUE]

\* line 119
HSleep ==
    /\ call.pc = "sleep"
    /\ HostFrame
    /\ UNCHANGED results
    /\ call' = [call EXCEPT !.delays = @ + 1, !.pc = "while"]

\* the interpreter closes the socket of an FTP object that nothing refers
\* to any more, at a moment of its choosing
HReclaim(c) ==
    /\ c \in call.conns
    /\ c # call.ftp
    /\ HostFrame
    /\ UNCHANGED results
    /\ call' = [call EXCEPT !.conns = @ \ {c}]

HStep ==
    \/ HEnter
    \/ \E o \in ProbeOutcomes : HProbe(o)
    \/ HWhile
    \/ \E o \in ConnectOutcomes : HConnect(o)
    \/ \E o \in StepOutcomes : HLogin(o)
    \/ \E o \in StepOutcomes : HGetresp(o)
    \/ \E o \in StepOutcomes : HQuit(o)
    \/ HExcept
    \/ HSleep

HNext ==
    \/ HStep
    \/ \E c \in 1..MaxRetries : HReclaim(c)

HostSpec == HInit /\ [][HNext]_vars

\* every blocking call of the thread returns or raises within its
\* deadline, so the thread keeps taking steps
HostFairSpec == HostSpec /\ WF_vars(HStep)

\* C11: when an attempt has ended and the next one is about to start, or
\* anonLogin has returned, no connection that anonLogin opened is open
C11_ConnectionsReleased ==
    call.pc \in {"connect", "done"} => call.conns = {}

\* C17: the deadline given to the connectivity probe is the configured
\* timeout, the same value each login attempt is given
C17_ProbeUsesConfiguredTimeout ==
    /\ call.probeDeadline # 0 => call.probeDeadline = timeout
    /\ call.loginDeadline # 0 => call.loginDeadline = call.probeDeadline

\* C18: once the success has been printed, the call goes on only to quit
\* and return True: no further attempt, delay, failure report or
\* anon_failures entry
C18_SuccessIsFinal ==
    call.reported =>
        /\ call.pc \in {"quit", "done"}
        /\ call.ret # "False"
        /\ ~call.failed
        /\ results.anon_failures = <<>>

\* C20: the attempt counter only increases and never exceeds retries, at
\* most retries attempts are made, and the call ends
C20_AnonLoginTerminates ==
    /\ [](/\ call.attempt <= retries
          /\ call.attemptsMade <= retries
          /\ call.attempt <= call.attemptsMade)
    /\ [][call'.attempt >= call.attempt]_vars
    /\ <>(call.pc \in {"done", "raised"})

C20_Witness ==
    /\ call.pc = "done"
    /\ call.ret = "False"
    /\ retries >= 2
    /\ call.attempt = retries
    /\ call.delays = retries - 1


\* ------------------------------------------------------------------
\* One token followed through the normalisations: strip_url_prefix
\* applied to it once and twice, and the way the program applies it, in
\* load_hosts after host.strip() and again in process_host.
\* ------------------------------------------------------------------

MaxTokenLen == 3

NormAlphabet == {"a", "A", ":", "/", "@", "[", "]", " "}

Strings(alphabet, n) == UNION {[1..k -> alphabet] : k \in 0..n}

Example_Url ==
    <<"f", "t", "p", ":", "/", "/", "2", "0", "3", ".", "0", ".", "1", "1",
      "3", ".", "5", ":", "2", "1", "/", "p", "u", "b">>

Example_Ip == <<"2", "0", "3", ".", "0", ".", "1", "1", "3", ".", "5">>

Example_Padded ==
    <<" ", " ", "e", "x", "a", "m", "p", "l", "e", ".", "c", "o", "m", " ",
      " ">>

Example_Host == <<"e", "x", "a", "m", "p", "l", "e", ".", "c", "o", "m">>

\* an empty netloc followed by a path that itself looks like "//host"
Example_PathLikeNetloc == <<"/", "/", "/", "/", "a">>

NormInputs ==
    Strings(NormAlphabet, MaxTokenLen) \cup
    {Example_Url, Example_Padded, Example_PathLikeNetloc}

\* str.strip(): leading and trailing whitespace removed
Whitespace == {" ", "\n"}

pystrip(s) ==
    Slice(s, FindFrom(s, Range(s) \ Whitespace, 1),
             FindLast(s, Range(s) \ Whitespace))

NormFrame ==
    UNCHANGED <<config, pool, results, timeout, file, inputError, call>>

NInit ==
    /\ hosts = <<>>
    /\ retries = 0
    /\ check_only = FALSE
    /\ max_workers = 1
    /\ timeout = DefaultTimeout
    /\ file = NoFile
    /\ inputError = "none"
    /\ call = NoCall
    /\ norm \in {[NoNorm EXCEPT !.pc = "raw", !.raw = r] : r \in NormInputs}
    /\ mainpc = "none"
    /\ mainExc = "none"
    /\ summaryWrites = 0
    /\ results = [reachable |-> <<>>, unreachable |-> <<>>,
                  anon_login |-> <<>>, anon_failures |-> <<>>]
    /\ worker = [w \in Workers |-> 0]
    /\ tpc = <<>>
    /\ host = <<>>
    /\ probe = <<>>
    /\ attempt = <<>>
    /\ attemptsMade = <<>>
    /\ delays = <<>>
    /\ lastOutcome = <<>>
    /\ loginRet = <<>>

\* lines 143-145 on the token in field from; the result goes to field to
Normalize(from, to, pcFrom, pcTo) ==
    /\ norm.pc = pcFrom
    /\ NormFrame
    /\ \/ /\ ~urlparse_raises(norm[from])
          /\ norm' = [norm EXCEPT ![to] = strip_url_prefix(norm[from]),
                                  !.pc = pcTo]
       \/ /\ urlparse_raises(norm[from]) \/ urlparse_may_raise(norm[from])
          /\ norm' = [norm EXCEPT !.pc = "raised"]

\* strip_url_prefix(r)
NormOnce == Normalize("raw", "once", "raw", "once")

\* strip_url_prefix(strip_url_prefix(r))
NormTwice == Normalize("once", "twice", "once", "twice")

\* lines 166, 168: host.strip(), then strip_url_prefix
NormLoad ==
    /\ norm.pc = "twice"
    /\ NormFrame
    /\ LET token == pystrip(norm.raw)
       IN  \/ /\ ~urlparse_raises(token)
              /\ norm' = [norm EXCEPT !.loaded = strip_url_prefix(token),
                                      !.pc = "loaded"]
           \/ /\ urlparse_raises(token) \/ urlparse_may_raise(token)
              /\ norm' = [norm EXCEPT !.pc = "raised"]

\* line 131: process_host normalises the host load_hosts returned
NormProcess == Normalize("loaded", "host", "loaded", "done")

NNext == NormOnce \/ NormTwice \/ NormLoad \/ NormProcess

NormSpec == NInit /\ [][NNext]_vars

\* C14: strip_url_prefix applied to its own result returns that result,
\* for every token, so the normalisation in process_host leaves a host
\* that load_hosts normalised as it is
C14_Idempotent ==
    /\ norm.pc \in {"twice", "loaded", "done"} => norm.twice = norm.once
    /\ norm.pc = "done" => norm.host = norm.loaded

C14_Witness ==
    /\ norm.pc = "done"
    /\ norm.once # norm.raw
    /\ norm.loaded # pystrip(norm.raw)
    /\ Len(norm.raw) <= MaxTokenLen

\* C15: strip_url_prefix returns the bare host: the example URL gives its
\* IP, the padded example gives its host name, and no result has
\* surrounding whitespace
C15_ReturnsBareHost ==
    norm.pc \in {"once", "twice", "loaded", "done"} =>
        /\ norm.raw = Example_Url => norm.once = Example_Ip
        /\ norm.raw = Example_Padded => norm.once = Example_Host
        /\ norm.once = pystrip(norm.once)


\* ------------------------------------------------------------------
\* The run from the host list file on: load_hosts reads and splits the
\* file, then main goes on as above.
\* ------------------------------------------------------------------

MaxFileLen == 3

FileAlphabet == {"a", " ", ",", "\n"}

Files ==
    {NoFile} \cup
    {[exists |-> TRUE, content |-> c] : c \in Strings(FileAlphabet, MaxFileLen)}

\* parse_arguments, line 57: -r with default=1; the runs below use 2 so
\* that a login is retried
FileRetries == 2

ReadContent_Unstripped(f) == f.content

\* line 154: file.read().strip()
ReadContent(f) == pystrip(f.content)

\* line 166: content.replace(',', '\n')
ReplaceCommas(s) == [k \in DOMAIN s |-> IF s[k] = "," THEN "\n" ELSE s[k]]

\* str.splitlines(): the text between line ends; a line end at the very
\* end opens no further line
RECURSIVE splitlines(_)
splitlines(s) ==
    IF s = <<>> THEN <<>>
    ELSE LET i == FindFrom(s, {"\n"}, 1)
         IN  <<Slice(s, 1, i - 1)>> \o splitlines(Slice(s, i + 1, Len(s)))

\* line 166: [host.strip() for host in ....splitlines()]
Tokens(content) ==
    LET lines == splitlines(ReplaceCommas(content))
    IN  [k \in DOMAIN lines |-> pystrip(lines[k])]

\* lines 151-171, the value returned
load_hosts(f) ==
    IF ~f.exists THEN <<>>
    ELSE LET content == ReadContent(f)
         IN  IF content = <<>> THEN <<>>
             ELSE [k \in DOMAIN Tokens(content) |->
                       strip_url_prefix(Tokens(content)[k])]

\* lines 156, 170: the error printed
load_hosts_error(f) ==
    IF ~f.exists THEN "not_found"
    ELSE IF ReadContent(f) = <<>> THEN "empty" ELSE "none"

\* line 168: urlparse raises on a token, the ValueError leaves load_hosts
load_hosts_raises(f) ==
    /\ f.exists
    /\ \E k \in DOMAIN Tokens(ReadContent(f)) :
           urlparse_raises(Tokens(ReadContent(f))[k])

FInit ==
    /\ file \in Files
    /\ hosts = <<>>
    /\ retries = FileRetries
    /\ check_only \in BOOLEAN
    /\ max_workers = 1
    /\ timeout = DefaultTimeout
    /\ inputError = "none"
    /\ call = NoCall
    /\ norm = NoNorm
    /\ mainpc = "read_file"
    /\ mainExc = "none"
    /\ summaryWrites = 0
    /\ results = [reachable |-> <<>>, unreachable |-> <<>>,
                  anon_login |-> <<>>, anon_failures |-> <<>>]
    /\ worker = [w \in Workers |-> 0]
    /\ tpc = <<>>
    /\ host = <<>>
    /\ probe = <<>>
    /\ attempt = <<>>
    /\ attemptsMade = <<>>
    /\ delays = <<>>
    /\ lastOutcome = <<>>
    /\ loginRet = <<>>

\* line 205: hosts = load_hosts(args.file); one task slot per host
FileLoad ==
    /\ mainpc = "read_file"
    /\ UNCHANGED <<retries, check_only, max_workers, timeout, file, call,
                   norm, summaryWrites, results, worker>>
    /\ IF load_hosts_raises(file)
       THEN /\ mainpc' = "crashed"
            /\ mainExc' = "ValueError"
            /\ UNCHANGED <<hosts, inputError, tpc, host, probe,
                           attempt, attemptsMade, delays, lastOutcome,
                           loginRet>>
       ELSE /\ mainpc' = "load_hosts"
            /\ hosts' = load_hosts(file)
            /\ inputError' = load_hosts_error(file)
            /\ tpc' = [i \in DOMAIN hosts' |-> "unsubmitted"]
            /\ host' = [i \in DOMAIN hosts' |-> <<>>]
            /\ probe' = [i \in DOMAIN hosts' |-> "none"]
            /\ attempt' = [i \in DOMAIN hosts' |-> 0]
            /\ attemptsMade' = [i \in DOMAIN hosts' |-> 0]
            /\ delays' = [i \in DOMAIN hosts' |-> 0]
            /\ lastOutcome' = [i \in DOMAIN hosts' |-> "none"]
            /\ loginRet' = [i \in DOMAIN hosts' |-> "none"]
            /\ UNCHANGED mainExc

FNext == FileLoad \/ Next

FileSpec == FInit /\ [][FNext]_vars

Blank(f) == ~f.exists \/ \A k \in DOMAIN f.content : f.content[k] \in Whitespace

\* C12: after load_hosts has read a missing, empty or whitespace-only
\* file there are no hosts, the error has been printed, and main returns
\* with no task, no result and no summary
C12_EmptyInputStops ==
    (Blank(file) /\ mainpc # "read_file") =>
        /\ hosts = <<>>
        /\ inputError # "none"
        /\ mainpc \in {"load_hosts", "returned"}
        /\ Tasks = {}
        /\ \A b \in Buckets : results[b] = <<>>
        /\ summaryWrites = 0

C12_Witness ==
    /\ file.exists
    /\ file.content # <<>>
    /\ Blank(file)
    /\ mainpc = "returned"
    /\ inputError = "empty"

\* C13: load_hosts returns no empty host, so none is dispatched or filed
C13_NoEmptyHost ==
    mainpc # "read_file" =>
        /\ \A k \in DOMAIN hosts : hosts[k] # <<>>
        /\ \A i \in Tasks : tpc[i] \in {"unsubmitted", "queued"}
                            \/ host[i] # <<>>
        /\ \A b \in Buckets : <<>> \notin Range(results[b])

====
